---- MODULE Spec2Model ----
(***************************************************************************)
(* Model of the data-migration core of real-time-fund: isLegacyData,       *)
(* generateId, migrateToV2, createEmptyV2Data, createPortfolio,            *)
(* mergeOldDataToPortfolio and validateV2Data (both source modules).       *)
(*                                                                         *)
(* JavaScript values are modelled as tagged records, so that the dynamic   *)
(* type tests of the code (typeof, Array.isArray, truthiness, ||, >=) are  *)
(* computed as the language computes them and not assumed.                 *)
(***************************************************************************)
EXTENDS Integers, Sequences, FiniteSets, TLC

VARIABLES doc, op

vars == <<doc, op>>

-----------------------------------------------------------------------------
(* JavaScript values *)

Undef == [t |-> "undefined"]

Null == [t |-> "null"]

Num(n) == [t |-> "number", n |-> n]

Str(s) == [t |-> "string", s |-> s]

Bool(b) == [t |-> "boolean", b |-> b]

Arr(a) == [t |-> "array", a |-> a]

Obj(o) == [t |-> "object", o |-> o]

\* A thrown TypeError (reading a property of null or undefined, spreading undefined)
TypeError == [t |-> "TypeError"]

\* marks a key that an object literal leaves out
Absent == [t |-> "absent"]

\* the object with the fields of r that are present
Strip(r) == Obj([k \in {j \in DOMAIN r : r[j] # Absent} |-> r[k]])

EmptyObj == Obj([k \in {} |-> Undef])

TypeOf(v) ==
  CASE v.t = "undefined" -> "undefined"
    [] v.t = "number" -> "number"
    [] v.t = "string" -> "string"
    [] v.t = "boolean" -> "boolean"
    [] OTHER -> "object"

IsArray(v) == v.t = "array"

Truthy(v) ==
  CASE v.t = "undefined" -> FALSE
    [] v.t = "null" -> FALSE
    [] v.t = "number" -> v.n # 0
    [] v.t = "string" -> v.s # ""
    [] v.t = "boolean" -> v.b
    [] OTHER -> TRUE

\* a || b
Or(a, b) == IF Truthy(a) THEN a ELSE b

\* v.k for a v that is neither null nor undefined
Get(v, k) == IF v.t = "object" /\ k \in DOMAIN v.o THEN v.o[k] ELSE Undef

\* v?.k
GetOpt(v, k) == IF v.t \in {"undefined", "null"} THEN Undef ELSE Get(v, k)

NaN == [nan |-> TRUE, n |-> 0]

Finite(n) == [nan |-> FALSE, n |-> n]

\* Number(s) of a string
StrToNumber(s) ==
  CASE s = "" -> Finite(0)
    [] s = "0" -> Finite(0)
    [] s = "1" -> Finite(1)
    [] s = "2" -> Finite(2)
    [] s = "3" -> Finite(3)
    [] OTHER -> NaN

\* ToNumber, as the relational operators apply it to an operand
ToNumber(v) ==
  CASE v.t = "number" -> Finite(v.n)
    [] v.t = "string" -> StrToNumber(v.s)
    [] v.t = "boolean" -> Finite(IF v.b THEN 1 ELSE 0)
    [] v.t = "null" -> Finite(0)
    [] v.t = "array" /\ Len(v.a) = 0 -> Finite(0)
    [] OTHER -> NaN

\* v >= n
GE(v, n) == LET x == ToNumber(v) IN ~x.nan /\ x.n >= n

\* String(v) inside a template literal
ToStr(v) ==
  CASE v.t = "string" -> v.s
    [] v.t = "number" -> ToString(v.n)
    [] v.t = "boolean" -> (IF v.b THEN "true" ELSE "false")
    [] OTHER -> v.t

-----------------------------------------------------------------------------
(* Legacy Detector *)

\* isLegacyData with the holdings test written as a null test
isLegacyData_NullTest(data) ==
  IF ~Truthy(data) \/ TypeOf(data) # "object" THEN FALSE
  ELSE IF Truthy(Get(data, "version")) /\ GE(Get(data, "version"), 2) THEN FALSE
  ELSE IsArray(Get(data, "funds")) \/ Get(data, "holdings") \notin {Undef, Null}

isLegacyData(data) ==
  IF ~Truthy(data) \/ TypeOf(data) # "object" THEN FALSE
  ELSE IF Truthy(Get(data, "version")) /\ GE(Get(data, "version"), 2) THEN FALSE
  ELSE IsArray(Get(data, "funds")) \/ Get(data, "holdings") # Undef

-----------------------------------------------------------------------------
(* Identifier Generator and clock *)

\* the strings crypto.randomUUID() / the fallback can return (two of them)
Ids == {"uuid-1", "uuid-2"}

\* the strings new Date().toISOString() can return (two of them)
Times == {"T1", "T2"}

\* generateId(): r is the value the random source produced
generateId(r) == Str(r)

-----------------------------------------------------------------------------
(* Portfolio Factory *)

\* The portfolio names are the source's literals in English: "New Portfolio",
\* "Default Portfolio" and "Unnamed Portfolio".

createPortfolio(name, r, now) ==
  Obj([id |-> generateId(r),
       name |-> Or(name, Str("New Portfolio")),
       createdAt |-> Str(now),
       funds |-> Arr(<<>>),
       favorites |-> Arr(<<>>),
       groups |-> Arr(<<>>),
       holdings |-> EmptyObj,
       pendingTrades |-> Arr(<<>>)])

createEmptyV2Data(r, now) ==
  Obj([version |-> Num(2),
       refreshMs |-> Num(30000),
       portfolios |-> Arr(<<
         Obj([id |-> generateId(r),
              name |-> Str("Default Portfolio"),
              createdAt |-> Str(now),
              funds |-> Arr(<<>>),
              favorites |-> Arr(<<>>),
              groups |-> Arr(<<>>),
              holdings |-> EmptyObj,
              pendingTrades |-> Arr(<<>>)]) >>)])

-----------------------------------------------------------------------------
(* Migrator *)

\* RefreshOf without the floor
RefreshOf_NoFloor(data) ==
  IF TypeOf(Get(data, "refreshMs")) = "number" THEN Get(data, "refreshMs") ELSE Num(30000)

\* typeof x.refreshMs === 'number' && x.refreshMs >= 5000 ? x.refreshMs : 30000
RefreshOf(data) ==
  IF TypeOf(Get(data, "refreshMs")) = "number" /\ Get(data, "refreshMs").n >= 5000
  THEN Get(data, "refreshMs")
  ELSE Num(30000)

\* Array.isArray(x) ? x : []
ArrayOr(x) == IF IsArray(x) THEN x ELSE Arr(<<>>)

\* PlainObjectOr without the Array.isArray test
PlainObjectOr_Arrays(x) ==
  IF Truthy(x) /\ TypeOf(x) = "object" THEN x ELSE EmptyObj

\* x && typeof x === 'object' && !Array.isArray(x) ? x : {}
PlainObjectOr(x) ==
  IF Truthy(x) /\ TypeOf(x) = "object" /\ ~IsArray(x) THEN x ELSE EmptyObj

\* portfolioName = Undef stands for an omitted argument; reading
\* oldData.refreshMs of a null or undefined oldData throws
migrateToV2(oldData, portfolioName, r, now) ==
  IF oldData.t \in {"undefined", "null"} THEN TypeError ELSE
  Obj([version |-> Num(2),
       refreshMs |-> RefreshOf(oldData),
       portfolios |-> Arr(<<
         Obj([id |-> generateId(r),
              name |-> IF portfolioName = Undef THEN Str("Default Portfolio")
                       ELSE portfolioName,
              createdAt |-> Str(now),
              funds |-> ArrayOr(Get(oldData, "funds")),
              favorites |-> ArrayOr(Get(oldData, "favorites")),
              groups |-> ArrayOr(Get(oldData, "groups")),
              holdings |-> PlainObjectOr(Get(oldData, "holdings")),
              pendingTrades |-> ArrayOr(Get(oldData, "pendingTrades"))]) >>)])

-----------------------------------------------------------------------------
(* Validator/Normalizer *)

\* RepairPortfolio minting a new id for every portfolio
RepairPortfolio_NewId(p, r, now) ==
  Obj([id |-> generateId(r),
       name |-> Or(Get(p, "name"), Str("Unnamed Portfolio")),
       createdAt |-> Or(Get(p, "createdAt"), Str(now)),
       funds |-> ArrayOr(Get(p, "funds")),
       favorites |-> ArrayOr(Get(p, "favorites")),
       groups |-> ArrayOr(Get(p, "groups")),
       holdings |-> PlainObjectOr(Get(p, "holdings")),
       pendingTrades |-> ArrayOr(Get(p, "pendingTrades"))])

\* RepairPortfolio stamping every portfolio with the current time
RepairPortfolio_NewTime(p, r, now) ==
  Obj([id |-> Or(Get(p, "id"), generateId(r)),
       name |-> Or(Get(p, "name"), Str("Unnamed Portfolio")),
       createdAt |-> Str(now),
       funds |-> ArrayOr(Get(p, "funds")),
       favorites |-> ArrayOr(Get(p, "favorites")),
       groups |-> ArrayOr(Get(p, "groups")),
       holdings |-> PlainObjectOr(Get(p, "holdings")),
       pendingTrades |-> ArrayOr(Get(p, "pendingTrades"))])

\* the mapping callback of validateV2Data, for a p whose properties can be read
RepairPortfolio(p, r, now) ==
  Obj([id |-> Or(Get(p, "id"), generateId(r)),
       name |-> Or(Get(p, "name"), Str("Unnamed Portfolio")),
       createdAt |-> Or(Get(p, "createdAt"), Str(now)),
       funds |-> ArrayOr(Get(p, "funds")),
       favorites |-> ArrayOr(Get(p, "favorites")),
       groups |-> ArrayOr(Get(p, "groups")),
       holdings |-> PlainObjectOr(Get(p, "holdings")),
       pendingTrades |-> ArrayOr(Get(p, "pendingTrades"))])

\* data.portfolios.map(p => ...): reading p.id of a null or undefined p throws
RepairPortfolios(ps, rs, nows) ==
  IF \E i \in 1..Len(ps) : ps[i].t \in {"undefined", "null"}
  THEN TypeError
  ELSE Arr([i \in 1..Len(ps) |-> RepairPortfolio(ps[i], rs[i], nows[i])])

\* the object branch of validateV2Data
ValidateObject(data, rs, nows) ==
  IF IsArray(Get(data, "portfolios")) /\ Len(Get(data, "portfolios").a) > 0
  THEN LET ps == RepairPortfolios(Get(data, "portfolios").a, rs, nows)
       IN IF ps = TypeError THEN TypeError
          ELSE Obj([version |-> Num(2), refreshMs |-> RefreshOf(data), portfolios |-> ps])
  ELSE Obj([version |-> Num(2), refreshMs |-> RefreshOf(data),
            portfolios |-> Arr(<<createPortfolio(Str("Default Portfolio"), rs[1], nows[1])>>)])

\* validateV2Data of the migration module; rs[i], nows[i] are what the i-th
\* generateId() / new Date() call of the invocation returns
validateV2Data(data, rs, nows) ==
  IF ~Truthy(data) \/ TypeOf(data) # "object"
  THEN createEmptyV2Data(rs[1], nows[1])
  ELSE ValidateObject(data, rs, nows)

\* createPortfolio of src/app/lib/migration.js
createPortfolioLib(name, r, now) ==
  Obj([id |-> generateId(r),
       name |-> Or(name, Str("New Portfolio")),
       createdAt |-> Str(now),
       funds |-> Arr(<<>>),
       favorites |-> Arr(<<>>),
       groups |-> Arr(<<>>),
       holdings |-> EmptyObj,
       pendingTrades |-> Arr(<<>>)])

\* the mapping over data.portfolios in src/app/lib/migration.js
RepairPortfoliosLib(ps, rs, nows) ==
  IF \E i \in 1..Len(ps) : ps[i].t \in {"undefined", "null"}
  THEN TypeError
  ELSE Arr([i \in 1..Len(ps) |->
         Obj([id |-> Or(Get(ps[i], "id"), generateId(rs[i])),
              name |-> Or(Get(ps[i], "name"), Str("Unnamed Portfolio")),
              createdAt |-> Or(Get(ps[i], "createdAt"), Str(nows[i])),
              funds |-> ArrayOr(Get(ps[i], "funds")),
              favorites |-> ArrayOr(Get(ps[i], "favorites")),
              groups |-> ArrayOr(Get(ps[i], "groups")),
              holdings |-> PlainObjectOr(Get(ps[i], "holdings")),
              pendingTrades |-> ArrayOr(Get(ps[i], "pendingTrades"))])])

\* validateV2Data of src/app/lib/migration.js
validateV2DataLib(data, rs, nows) ==
  IF ~Truthy(data) \/ TypeOf(data) # "object"
  THEN Obj([version |-> Num(2), refreshMs |-> Num(30000),
            portfolios |-> Arr(<<createPortfolioLib(Str("Default Portfolio"), rs[1], nows[1])>>)])
  ELSE IF IsArray(Get(data, "portfolios")) /\ Len(Get(data, "portfolios").a) > 0
  THEN LET ps == RepairPortfoliosLib(Get(data, "portfolios").a, rs, nows)
       IN IF ps = TypeError THEN TypeError
          ELSE Obj([version |-> Num(2), refreshMs |-> RefreshOf(data), portfolios |-> ps])
  ELSE Obj([version |-> Num(2), refreshMs |-> RefreshOf(data),
            portfolios |-> Arr(<<createPortfolioLib(Str("Default Portfolio"), rs[1], nows[1])>>)])

-----------------------------------------------------------------------------
(* Merger *)

\* the elements of a sequence, as a JavaScript Set holds them
SetOf(seq) == {seq[i] : i \in 1..Len(seq)}

\* Array.from(new Set(seq)): first occurrences, in order
Dedupe(seq) ==
  LET keep == {i \in 1..Len(seq) : \A j \in 1..(i - 1) : seq[j] # seq[i]}
      F[i \in 0..Len(seq)] ==
        IF i = 0 THEN <<>>
        ELSE IF i \in keep THEN Append(F[i - 1], seq[i]) ELSE F[i - 1]
  IN F[Len(seq)]

\* (x || []) used as an array: .map, .filter, .forEach and the array spread
\* need an array; the model covers arrays and falsy values
ListOr(x) == IF Truthy(x) THEN (IF IsArray(x) THEN x ELSE TypeError) ELSE Arr(<<>>)

\* ...(x || {}) inside an object literal: the own enumerable properties
PropsOr(x) == IF Truthy(x) /\ x.t = "object" THEN x.o ELSE [k \in {} |-> Undef]

\* {...a, ...b}
Overlay(a, b) ==
  [k \in (DOMAIN a) \cup (DOMAIN b) |-> IF k \in DOMAIN b THEN b[k] ELSE a[k]]

\* KeepKnown letting every code through
KeepKnown_All(codes, allCodes) == codes

\* codes.filter(code => allCodes.has(code))
KeepKnown(codes, allCodes) == SelectSeq(codes, LAMBDA code : code \in allCodes)

\* f => f && f.code && !existingCodes.has(f.code)
IsNewFund(f, existingCodes) ==
  Truthy(f) /\ Truthy(Get(f, "code")) /\ Get(f, "code") \notin existingCodes

\* one iteration of (oldData.groups || []).forEach(incomingGroup => ...);
\* mergedGroups is a sequence, the result an array value or TypeError
MergeGroup(mergedGroups, incomingGroup, allCodes) ==
  IF incomingGroup.t \in {"undefined", "null"} THEN TypeError
  ELSE IF \E i \in 1..Len(mergedGroups) : mergedGroups[i].t \in {"undefined", "null"}
            /\ \A j \in 1..(i - 1) : Get(mergedGroups[j], "id") # Get(incomingGroup, "id")
  THEN TypeError
  ELSE LET hits == {i \in 1..Len(mergedGroups) :
                      Get(mergedGroups[i], "id") = Get(incomingGroup, "id")}
           inc == ListOr(Get(incomingGroup, "codes"))
       IN IF hits # {}
          THEN LET existingIdx == CHOOSE i \in hits : \A j \in hits : i <= j
                   old == Get(mergedGroups[existingIdx], "codes")
               IN IF ~IsArray(old) \/ inc = TypeError THEN TypeError
                  ELSE Arr([mergedGroups EXCEPT ![existingIdx] =
                          Obj(Overlay(PropsOr(mergedGroups[existingIdx]),
                                      [codes |-> Arr(KeepKnown(Dedupe(old.a \o inc.a),
                                                                 allCodes))]))])
          ELSE IF inc = TypeError THEN TypeError
               ELSE Arr(Append(mergedGroups,
                          Obj(Overlay(PropsOr(incomingGroup),
                                      [codes |-> Arr(KeepKnown(inc.a, allCodes))]))))

\* the forEach over the legacy groups; mergedGroups is an array value or TypeError
RECURSIVE MergeGroups(_, _, _)
MergeGroups(mergedGroups, incoming, allCodes) ==
  IF mergedGroups = TypeError THEN TypeError
  ELSE IF incoming = <<>> THEN mergedGroups
  ELSE MergeGroups(MergeGroup(mergedGroups.a, Head(incoming), allCodes),
                   Tail(incoming), allCodes)

\* keyOf of mergeOldDataToPortfolio
keyOf(trade) ==
  IF Truthy(GetOpt(trade, "id")) THEN "id:" \o ToStr(GetOpt(trade, "id"))
  ELSE "k:" \o ToStr(Or(GetOpt(trade, "fundCode"), Str("")))
       \o ":" \o ToStr(Or(GetOpt(trade, "type"), Str("")))
       \o ":" \o ToStr(Or(GetOpt(trade, "date"), Str("")))
       \o ":" \o ToStr(Or(GetOpt(trade, "share"), Str("")))
       \o ":" \o ToStr(Or(GetOpt(trade, "amount"), Str("")))
       \o ":" \o (IF Truthy(GetOpt(trade, "isAfter3pm")) THEN "1" ELSE "0")

\* MapSet that leaves the entry of an existing key alone
MapSet_KeepFirst(m, k, v) ==
  IF \E i \in 1..Len(m) : m[i].key = k THEN m ELSE Append(m, [key |-> k, value |-> v])

\* Map.prototype.set on a map kept as the sequence of its entries: an existing
\* key keeps its position and takes the new value, a new key goes last
MapSet(m, k, v) ==
  IF \E i \in 1..Len(m) : m[i].key = k
  THEN [i \in 1..Len(m) |-> IF m[i].key = k THEN [key |-> k, value |-> v] ELSE m[i]]
  ELSE Append(m, [key |-> k, value |-> v])

\* trades.forEach(trade => { if (trade && allCodes.has(trade.fundCode)) pendingMap.set(...) })
RECURSIVE AddTrades(_, _, _)
AddTrades(pendingMap, trades, allCodes) ==
  IF trades = <<>> THEN pendingMap
  ELSE LET trade == Head(trades)
       IN AddTrades(IF Truthy(trade) /\ Get(trade, "fundCode") \in allCodes
                    THEN MapSet(pendingMap, keyOf(trade), trade)
                    ELSE pendingMap,
                    Tail(trades), allCodes)

\* Array.from(pendingMap.values())
MapValues(m) == [i \in 1..Len(m) |-> m[i].value]

mergeOldDataToPortfolio(portfolio, oldData) ==
  IF ~Truthy(portfolio) \/ ~Truthy(oldData) THEN portfolio
  ELSE
  LET pFunds == ListOr(Get(portfolio, "funds"))
      oFunds == ListOr(Get(oldData, "funds"))
      pFavs == ListOr(Get(portfolio, "favorites"))
      oFavs == ListOr(Get(oldData, "favorites"))
      pGroups == ListOr(Get(portfolio, "groups"))
      oGroups == ListOr(Get(oldData, "groups"))
      pTrades == ListOr(Get(portfolio, "pendingTrades"))
      oTrades == ListOr(Get(oldData, "pendingTrades"))
  IN IF TypeError \in {pFunds, oFunds, pFavs, oFavs, pGroups, oGroups, pTrades, oTrades}
     THEN TypeError
     ELSE IF \E i \in 1..Len(pFunds.a) : pFunds.a[i].t \in {"undefined", "null"}
     THEN TypeError
     ELSE
     LET existingCodes == {Get(pFunds.a[i], "code") : i \in 1..Len(pFunds.a)}
         newFunds == SelectSeq(oFunds.a, LAMBDA f : IsNewFund(f, existingCodes))
         mergedFunds == pFunds.a \o newFunds
         allCodes == {Get(mergedFunds[i], "code") : i \in 1..Len(mergedFunds)}
         mergedFavorites == KeepKnown(Dedupe(pFavs.a \o oFavs.a), allCodes)
         mergedGroups == MergeGroups(pGroups, oGroups.a, allCodes)
         spread == Overlay(PropsOr(Get(portfolio, "holdings")),
                           PropsOr(Get(oldData, "holdings")))
         mergedHoldings == [code \in {k \in DOMAIN spread : Str(k) \in allCodes} |-> spread[code]]
         pendingMap == AddTrades(AddTrades(<<>>, pTrades.a, allCodes), oTrades.a, allCodes)
         mergedPending == MapValues(pendingMap)
     IN IF mergedGroups = TypeError THEN TypeError
        ELSE Obj(Overlay(PropsOr(portfolio),
                         [funds |-> Arr(mergedFunds),
                          favorites |-> Arr(mergedFavorites),
                          groups |-> mergedGroups,
                          holdings |-> Obj(mergedHoldings),
                          pendingTrades |-> Arr(mergedPending)]))

-----------------------------------------------------------------------------
(* Bounds and input domains *)

\* most portfolios a document holds, and most elements of an input portfolios array
MaxPortfolios == 2

\* all sequences over S of length at most n
SeqsUpTo(S, n) == UNION {[1..k -> S] : k \in 0..n}

\* a fund record {code}
Fund(c) == Obj([code |-> c])

\* a group record {id, codes}
Group(id, codes) == Strip([id |-> id, codes |-> codes])

\* a pending trade {id, fundCode, type, date, share}
Trade(id, fundCode, share) ==
  Strip([id |-> id, fundCode |-> fundCode, type |-> Str("buy"),
         date |-> Str("2024-01-02"), share |-> share])

\* an opaque holding record
Holding(n) == Obj([share |-> Num(n)])

\* arguments of isLegacyData
DetectInputs ==
  {Undef, Null, Num(0), Num(7), Str(""), Str("funds"), Bool(TRUE), Arr(<<>>),
   Arr(<<Fund(Str("A"))>>)}
  \cup
  {Strip([version |-> v, funds |-> f, holdings |-> h]) :
     v \in {Absent, Undef, Null, Num(0), Num(1), Num(2), Num(3), Str("1"), Str("2"),
            Str("3"), Str("v2"), Bool(TRUE)},
     f \in {Absent, Null, Str("A"), EmptyObj, Arr(<<>>), Arr(<<Fund(Str("A"))>>)},
     h \in {Absent, Undef, Null, Num(0), EmptyObj, Arr(<<>>), Obj([A |-> Holding(1)])}}

\* legacy documents whose fields are missing, mistyped or well typed
LegacyShapes ==
  {Strip([refreshMs |-> ms, funds |-> f, favorites |-> fav, groups |-> g,
          holdings |-> h, pendingTrades |-> t]) :
     ms \in {Absent, Num(1000), Num(4999), Num(5000), Num(60000), Str("60000"), Null},
     f \in {Absent, Str("A"), Arr(<<Fund(Str("A")), Fund(Str("A")), Fund(Str("B"))>>)},
     fav \in {Absent, Arr(<<Str("Z"), Str("A")>>)},
     g \in {Null, Arr(<<Group(Str("g1"), Arr(<<Str("Z")>>))>>)},
     h \in {Absent, Null, Arr(<<Holding(1)>>), Obj([Z |-> Holding(1)])},
     t \in {Num(3), Arr(<<Trade(Str("t1"), Str("Z"), Num(10))>>)}}

\* portfolio names handed to migrateToV2 and createPortfolio (Undef: omitted)
Names == {Undef, Str(""), Str("Mine")}

\* a well-formed stored portfolio
GoodPortfolio ==
  [id |-> Str("p1"), name |-> Str("Mine"), createdAt |-> Str("T0"),
   funds |-> Arr(<<Fund(Str("A"))>>), favorites |-> Arr(<<Str("A")>>),
   groups |-> Arr(<<Group(Str("g1"), Arr(<<Str("A")>>))>>),
   holdings |-> Obj([A |-> Holding(1)]),
   pendingTrades |-> Arr(<<Trade(Str("t1"), Str("A"), Num(10))>>), note |-> Absent]

\* elements of an input portfolios array: null, primitives, and objects with
\* fields missing or mistyped
PortfolioInputs ==
  {Null, Num(7), EmptyObj, Strip(GoodPortfolio),
   Strip([GoodPortfolio EXCEPT !.id = Str(""), !.funds = Str("A"), !.groups = EmptyObj]),
   Strip([GoodPortfolio EXCEPT !.id = Num(5), !.note = Str("extra"), !.name = Absent,
                               !.holdings = Arr(<<Holding(1)>>)]),
   Strip([GoodPortfolio EXCEPT !.createdAt = Null, !.favorites = Absent,
                               !.holdings = Null, !.pendingTrades = Num(0)])}

\* arguments of validateV2Data
ValidateInputs ==
  {Undef, Null, Num(0), Num(7), Str("doc"), Bool(FALSE)}
  \cup
  {Strip([version |-> Num(1), refreshMs |-> ms, portfolios |-> ps]) :
     ms \in {Absent, Num(4999), Num(5000), Str("60000")},
     ps \in {Absent, Null, Str("p"), EmptyObj}
            \cup {Arr(a) : a \in SeqsUpTo(PortfolioInputs, MaxPortfolios)}}

\* the values the caller can read from storage
StoredValues == DetectInputs \cup LegacyShapes \cup ValidateInputs

-----------------------------------------------------------------------------
(* State: the value the caller holds (the stored value at first, then the    *)
(* results of the calls), and the last call with its arguments and outcome  *)

Portfolios == Get(doc, "portfolios").a

\* doc with its i-th portfolio replaced
WithPortfolio(i, p) ==
  Obj([doc.o EXCEPT !.portfolios = Arr([Portfolios EXCEPT ![i] = p])])

\* the caller holds a v2 document
HoldsDocument ==
  /\ doc.t = "object"
  /\ Get(doc, "version") = Num(2)
  /\ IsArray(Get(doc, "portfolios"))

Init ==
  /\ doc \in StoredValues
  /\ op = [name |-> "load", threw |-> FALSE]

\* isLegacyData(data)
Detect(S) ==
  \E data \in S :
    /\ op' = [name |-> "isLegacyData", data |-> data, result |-> isLegacyData(data),
              threw |-> FALSE]
    /\ UNCHANGED doc

\* doc = createEmptyV2Data()
CreateEmpty ==
  \E r \in Ids, now \in Times :
    /\ doc' = createEmptyV2Data(r, now)
    /\ op' = [name |-> "createEmptyV2Data", threw |-> FALSE]

\* doc.portfolios.push(createPortfolio(name))
CreatePortfolio ==
  \E name \in Names, r \in Ids, now \in Times :
    /\ HoldsDocument
    /\ Len(Portfolios) < MaxPortfolios
    /\ doc' = Obj([doc.o EXCEPT !.portfolios =
                     Arr(Append(Portfolios, createPortfolio(name, r, now)))])
    /\ op' = [name |-> "createPortfolio", arg |-> name, threw |-> FALSE]

\* the caller keeps the result of a call, or what it held when the call threw
Returned(name, args, res) ==
  /\ doc' = IF res = TypeError THEN doc ELSE res
  /\ op' = [name |-> name, args |-> args, threw |-> (res = TypeError)]

\* doc = migrateToV2(oldData, portfolioName)
Migrate(S) ==
  \E oldData \in S, portfolioName \in Names, r \in Ids, now \in Times :
    Returned("migrateToV2", <<oldData, portfolioName>>,
             migrateToV2(oldData, portfolioName, r, now))

\* the results of the generateId() calls of one invocation, and its clock
\* reading (one invocation runs within one clock tick)
Entropy == [1..MaxPortfolios -> Ids]

\* doc = validateV2Data(data)
Validate(S) ==
  \E data \in S, rs \in Entropy, now \in Times :
    Returned("validateV2Data", <<data>>,
             validateV2Data(data, rs, [i \in 1..MaxPortfolios |-> now]))

\* the same through src/app/lib/migration.js
ValidateLib(S) ==
  \E data \in S, rs \in Entropy, now \in Times :
    Returned("validateV2DataLib", <<data>>,
             validateV2DataLib(data, rs, [i \in 1..MaxPortfolios |-> now]))

\* doc.portfolios[i] = mergeOldDataToPortfolio(doc.portfolios[i], oldData)
Merge(S) ==
  \E i \in 1..Len(Portfolios), oldData \in S :
    LET res == mergeOldDataToPortfolio(Portfolios[i], oldData)
    IN /\ HoldsDocument
       /\ doc' = IF res = TypeError THEN doc ELSE WithPortfolio(i, res)
       /\ op' = [name |-> "mergeOldDataToPortfolio", idx |-> i,
                 args |-> <<Portfolios[i], oldData>>, threw |-> (res = TypeError)]

\* every operation applied to the value held, in any order
Next ==
  \/ Detect({doc})
  \/ CreateEmpty
  \/ Migrate({doc})
  \/ Validate({doc})
  \/ ValidateLib({doc})

Spec == Init /\ [][Next]_vars

-----------------------------------------------------------------------------
(* Properties of the documents returned *)

\* version = 2, refreshMs a number >= 5000, portfolios a non-empty array
IsDocument(d) ==
  /\ d.t = "object"
  /\ Get(d, "version") = Num(2)
  /\ Get(d, "refreshMs").t = "number"
  /\ Get(d, "refreshMs").n >= 5000
  /\ IsArray(Get(d, "portfolios"))
  /\ Len(Get(d, "portfolios").a) > 0

DocumentMakers ==
  {"createEmptyV2Data", "migrateToV2", "validateV2Data", "validateV2DataLib"}

\* C4: every Document returned by createEmptyV2Data, migrateToV2 or validateV2Data
\* (of either module), applied to stored values or to each other's results, has
\* version = 2, refreshMs >= 5000 and a non-empty portfolios sequence.
C4_ReturnedDocumentsAreSound ==
  (op.name \in DocumentMakers /\ ~op.threw) => IsDocument(doc)

\* C4 witness: a value with refreshMs below the floor went through validateV2Data
C4_Witness ==
  /\ op.name \in {"validateV2Data", "validateV2DataLib"}
  /\ ~op.threw
  /\ Get(op.args[1], "refreshMs") = Num(4999)
  /\ Get(doc, "refreshMs") = Num(30000)

\* C5: validateV2Data raises no error, whatever its input.
C5_ValidateNeverThrows ==
  op.name \in {"validateV2Data", "validateV2DataLib"} => ~op.threw

\* C6: validateV2Data applied to its own result returns that result, field for
\* field, whatever the identifier generator and the clock would produce.
C6_ValidateIdempotent ==
  (op.name = "validateV2Data" /\ ~op.threw) =>
    \A rs \in Entropy, now \in Times :
      validateV2Data(doc, rs, [i \in 1..MaxPortfolios |-> now]) = doc

\* C6 witness: the first application had to mint an id and default every field
C6_Witness ==
  /\ op.name = "validateV2Data"
  /\ ~op.threw
  /\ IsArray(Get(op.args[1], "portfolios"))
  /\ \E i \in 1..Len(Get(op.args[1], "portfolios").a) :
       Get(op.args[1], "portfolios").a[i] = EmptyObj

\* a version that is truthy and >= 2: a number from 2 on, or a string denoting one
VersionIsCurrent(v) ==
  \/ v.t = "number" /\ v.n >= 2
  \/ v.t = "string" /\ v.s \in {"2", "3"}

\* C7: isLegacyData is false for non-objects and for objects whose version is
\* truthy and >= 2; otherwise it is true exactly when funds is an array or
\* holdings is not undefined.
C7_LegacyDetection ==
  op.name = "isLegacyData" =>
    LET x == op.data
        primitive == x.t \in {"undefined", "null", "number", "string", "boolean"}
    IN /\ primitive => ~op.result
       /\ (~primitive /\ VersionIsCurrent(Get(x, "version"))) => ~op.result
       /\ (~primitive /\ ~VersionIsCurrent(Get(x, "version"))) =>
            (op.result <=> (IsArray(Get(x, "funds")) \/ Get(x, "holdings") # Undef))

\* C7 witness: an object classified legacy only because of a null holdings
C7_Witness ==
  /\ op.name = "isLegacyData"
  /\ op.result
  /\ Get(op.data, "holdings") = Null
  /\ ~IsArray(Get(op.data, "funds"))

\* C9: migrateToV2 returns one portfolio, named as asked, that carries each legacy
\* collection over unchanged when it has the right type and empty otherwise,
\* with refreshMs kept when it is a number >= 5000 and 30000 otherwise.
C9_MigrateCarriesOver ==
  (op.name = "migrateToV2" /\ ~op.threw) =>
    LET oldData == op.args[1]
        p == Portfolios[1]
        ms == Get(oldData, "refreshMs")
        h == Get(oldData, "holdings")
    IN /\ Len(Portfolios) = 1
       /\ op.args[2] # Undef => Get(p, "name") = op.args[2]
       /\ \A f \in {"funds", "favorites", "groups", "pendingTrades"} :
            Get(p, f) = IF Get(oldData, f).t = "array" THEN Get(oldData, f) ELSE Arr(<<>>)
       /\ Get(p, "holdings") = IF h.t = "object" THEN h ELSE EmptyObj
       /\ Get(doc, "refreshMs") =
            IF ms.t = "number" /\ ms.n >= 5000 THEN ms ELSE Num(30000)

\* C9 witness: a legacy document with a repeated fund code, an array in place
\* of holdings and a refreshMs below the floor was migrated
C9_Witness ==
  /\ op.name = "migrateToV2"
  /\ ~op.threw
  /\ Get(op.args[1], "refreshMs") = Num(1000)
  /\ IsArray(Get(op.args[1], "holdings"))
  /\ Len(Get(Portfolios[1], "funds").a) = 3

-----------------------------------------------------------------------------
(* Merging legacy documents into the portfolios of a document *)

\* legacy documents with repeated, null, code-less and known funds, and with
\* favorites, groups, holdings and trades that point at funds nobody lists (Z)
MergeLegacy ==
  {Strip([funds |-> f, favorites |-> refs[1], groups |-> g, holdings |-> refs[2],
          pendingTrades |-> refs[3]]) :
     f \in {Absent, Arr(<<Fund(Str("A")), Fund(Str("A"))>>),
            Arr(<<Null, Fund(Str("")), Fund(Str("B"))>>)},
     g \in {Absent, Arr(<<Group(Str("g1"), Arr(<<Str("A"), Str("Z"), Str("A")>>))>>),
            Arr(<<Group(Str("g1"), Arr(<<Str("B")>>)), Group(Str("g2"), Absent)>>)},
     refs \in {<<Absent, Absent, Absent>>,
               <<Arr(<<Str("A"), Str("Z"), Str("A"), Str("B")>>),
                 Obj([A |-> Holding(1), Z |-> Holding(1), B |-> Holding(2)]),
                 Arr(<<Trade(Str("t1"), Str("A"), Num(10)),
                       Trade(Absent, Str("Z"), Num(10))>>)>>}}

\* the documents merging starts from: an empty one, or a migrated legacy one
InitMerge ==
  /\ doc \in {createEmptyV2Data("uuid-1", "T1")}
             \cup {migrateToV2(lg, Undef, "uuid-1", "T1") : lg \in MergeLegacy}
  /\ op = [name |-> "load", threw |-> FALSE]

NextMerge == Merge(MergeLegacy \cup {Undef})

SpecMerge == InitMerge /\ [][NextMerge]_vars

\* the codes of a sequence of funds
CodesOf(funds) == {Get(funds[i], "code") : i \in 1..Len(funds)}

\* no two entries of funds share a code
DistinctCodes(funds) ==
  \A i, j \in 1..Len(funds) : i # j => Get(funds[i], "code") # Get(funds[j], "code")

Merged == op.name = "mergeOldDataToPortfolio" /\ ~op.threw

\* C1: a merge into a portfolio whose funds have pairwise-distinct codes leaves
\* funds with pairwise-distinct codes, whatever the legacy document.
C1_MergeKeepsCodesDistinct ==
  [][(Merged' /\ DistinctCodes(Get(op'.args[1], "funds").a))
       => DistinctCodes(Get(Portfolios'[op'.idx], "funds").a)]_vars

\* C2: after a merge of a portfolio and a legacy document (both present), every
\* favorite, every key of holdings and every pendingTrades[i].fundCode is the
\* code of a fund of the result.
C2_ReferencesClosed ==
  (Merged /\ Truthy(op.args[2])) =>
    LET p == Portfolios[op.idx]
        codes == CodesOf(Get(p, "funds").a)
        favorites == Get(p, "favorites").a
        pending == Get(p, "pendingTrades").a
    IN /\ \A i \in 1..Len(favorites) : favorites[i] \in codes
       /\ \A k \in DOMAIN Get(p, "holdings").o : Str(k) \in codes
       /\ \A i \in 1..Len(pending) : Get(pending[i], "fundCode") \in codes

\* C2 witness: both inputs carried dangling references, and some survived the
\* filter because their fund is there
C2_Witness ==
  /\ Merged
  /\ Truthy(op.args[2])
  /\ Str("Z") \in SetOf(Get(op.args[1], "favorites").a)
  /\ "Z" \in DOMAIN PropsOr(Get(op.args[2], "holdings"))
  /\ Len(Get(op.args[1], "pendingTrades").a) = 2
  /\ Len(Get(Portfolios[op.idx], "favorites").a) > 0
  /\ DOMAIN Get(Portfolios[op.idx], "holdings").o # {}
  /\ Len(Get(Portfolios[op.idx], "pendingTrades").a) > 0

\* C3: after a merge of a portfolio and a legacy document (both present), every
\* code of every group of the result is the code of a fund of the result.
C3_GroupCodesClosed ==
  (Merged /\ Truthy(op.args[2])) =>
    LET p == Portfolios[op.idx]
        groups == Get(p, "groups").a
    IN \A i \in 1..Len(groups) :
         IsArray(Get(groups[i], "codes")) =>
           SetOf(Get(groups[i], "codes").a) \subseteq CodesOf(Get(p, "funds").a)

-----------------------------------------------------------------------------
(* Merging pending trades *)

\* longest pendingTrades list of an input
MaxTrades == 2

\* two trades with the same id, an id-less trade with a falsy share, and a
\* trade for a fund nobody lists
TradeSet ==
  {Trade(Str("t1"), Str("A"), Num(10)), Trade(Str("t1"), Str("A"), Num(20)),
   Trade(Absent, Str("A"), Num(0)), Trade(Absent, Str("Z"), Num(10))}

TradeLists == SeqsUpTo(TradeSet, MaxTrades)

TradeLegacy == {Obj([pendingTrades |-> Arr(l)]) : l \in TradeLists}

\* a migrated portfolio holding fund A and any list of pending trades
InitTrades ==
  /\ doc \in {migrateToV2(Obj([funds |-> Arr(<<Fund(Str("A"))>>),
                               pendingTrades |-> Arr(l)]), Undef, "uuid-1", "T1") :
                l \in TradeLists}
  /\ op = [name |-> "load", threw |-> FALSE]

NextTrades == Merge(TradeLegacy)

SpecTrades == InitTrades /\ [][NextTrades]_vars

\* the trades a merge considers: the portfolio's, then the legacy document's,
\* those that are truthy and whose fundCode is a merged fund code
Eligible(portfolio, oldData, allCodes) ==
  SelectSeq(Get(portfolio, "pendingTrades").a \o Get(oldData, "pendingTrades").a,
            LAMBDA trade : Truthy(trade) /\ Get(trade, "fundCode") \in allCodes)

\* C8: the merged pendingTrades hold one trade per key among the eligible
\* trades; the trade kept for a key is the last eligible one with that key; the
\* keys are listed in the order in which they first occur.
C8_TradesDeduplicated ==
  (Merged /\ Truthy(op.args[2])) =>
    LET p == Portfolios[op.idx]
        out == Get(p, "pendingTrades").a
        all == Eligible(op.args[1], op.args[2], CodesOf(Get(p, "funds").a))
        First(k) == CHOOSE i \in 1..Len(all) :
                      /\ keyOf(all[i]) = k
                      /\ \A j \in 1..(i - 1) : keyOf(all[j]) # k
    IN /\ \A i, j \in 1..Len(out) : i # j => keyOf(out[i]) # keyOf(out[j])
       /\ \A i \in 1..Len(all) : \E j \in 1..Len(out) : keyOf(out[j]) = keyOf(all[i])
       /\ \A j \in 1..Len(out) :
            \E i \in 1..Len(all) :
              /\ all[i] = out[j]
              /\ \A m \in (i + 1)..Len(all) : keyOf(all[m]) # keyOf(out[j])
       /\ \A i, j \in 1..Len(out) :
            i < j => First(keyOf(out[i])) < First(keyOf(out[j]))

\* C8 witness: a legacy trade replaced the portfolio trade with the same id, in
\* the place the portfolio trade had, ahead of a trade the portfolio listed later
C8_Witness ==
  /\ Merged
  /\ Get(op.args[1], "pendingTrades").a =
       <<Trade(Str("t1"), Str("A"), Num(10)), Trade(Absent, Str("A"), Num(0))>>
  /\ Trade(Str("t1"), Str("A"), Num(20)) \in SetOf(Get(op.args[2], "pendingTrades").a)
  /\ Get(Portfolios[op.idx], "pendingTrades").a =
       <<Trade(Str("t1"), Str("A"), Num(20)), Trade(Absent, Str("A"), Num(0))>>

-----------------------------------------------------------------------------
(* The life of the portfolios of a document *)

LifeLegacy ==
  {Obj([refreshMs |-> Num(1000), funds |-> Arr(<<Fund(Str("A"))>>),
        favorites |-> Arr(<<Str("A"), Str("Z")>>)])}

LifeMerge ==
  {Undef,
   Obj([funds |-> Arr(<<Fund(Str("B"))>>), favorites |-> Arr(<<Str("B")>>),
        holdings |-> Obj([B |-> Holding(1)])])}

InitLife ==
  /\ \E r \in Ids, now \in Times : doc = createEmptyV2Data(r, now)
  /\ op = [name |-> "createEmptyV2Data", threw |-> FALSE]

NextLife ==
  \/ CreatePortfolio
  \/ Migrate(LifeLegacy)
  \/ Validate({doc})
  \/ Merge(LifeMerge)

SpecLife == InitLife /\ [][NextLife]_vars

\* the id and createdAt of each portfolio, in order
Identities(d) ==
  [i \in 1..Len(Get(d, "portfolios").a) |->
     <<Get(Get(d, "portfolios").a[i], "id"), Get(Get(d, "portfolios").a[i], "createdAt")>>]

\* C10: a mergeOldDataToPortfolio call (legacy document present or absent) or a
\* validateV2Data call on the document leaves the id and createdAt of every
\* portfolio created by createPortfolio, createEmptyV2Data or migrateToV2 as
\* they were.
C10_IdentityPreserved ==
  [][op'.name \in {"mergeOldDataToPortfolio", "validateV2Data"}
       => Identities(doc') = Identities(doc)]_vars

\* C10 witness: a document of two portfolios, the second one merged into, has
\* been validated
C10_Witness ==
  /\ op.name = "validateV2Data"
  /\ Len(Portfolios) = 2
  /\ Len(Get(Portfolios[2], "funds").a) > 0
  /\ Get(Portfolios[1], "id") # Get(Portfolios[2], "id")
  /\ Get(Portfolios[1], "createdAt") # Get(Portfolios[2], "createdAt")

====
